---- MODULE Spec2Model ----
(***************************************************************************)
(* HangarControl (src/src/main.cpp, lines 1-526): the schedule table and   *)
(* its evaluation, the periodic job statusUpdate, the uplink builder, the  *)
(* send step do_send, the transport event handler onEvent with the         *)
(* downlink handler processDownlink, and the network time callback.        *)
(*                                                                         *)
(* Every handler runs to completion (os_runloop_once dispatches one        *)
(* callback at a time), so each handler is one action.  The variable       *)
(* "last" is a record of what the most recent handler did (which branch    *)
(* built a command, what the send step saw, what was handed over, which    *)
(* payload was processed); it is an observation of the run, not program    *)
(* state.                                                                  *)
(***************************************************************************)
EXTENDS Integers, Sequences, FiniteSets, TLC

VARIABLES
    pc,               \* "boot" before setup() has run, "run" afterwards
    epoch,            \* the RTC, seconds since 1 Jan 1970 (rtc.getEpoch())
    powerSched,       \* Schedule powerSched[25]
    schedCount,       \* u_int8_t schedCount
    powerState,       \* boolean powerState[2]
    startUpComplete,  \* boolean startUpComplete
    txInProg,         \* boolean txInProg
    timeSet,          \* boolean timeSet
    cmdJson,          \* the pending uplink document
    txrxPend,         \* LMIC.opmode & OP_TXRXPEND, the transport's own flag
    timeReq,          \* a network time request is outstanding
    armed,            \* number of armed instances of statusJob
    maxIdx,           \* highest index of powerSched ever written, -1 if none
    last              \* what the most recent handler did

vars == <<pc, epoch, powerSched, schedCount, powerState, startUpComplete,
          txInProg, timeSet, cmdJson, txrxPend, timeReq, armed, maxIdx, last>>

(***************************************************************************)
(* Program constants and bounds                                            *)
(***************************************************************************)
Capacity == 25
TX_INTERVAL == 30
U8 == 256

\* number of TX_INTERVAL steps the clock may run past the window start
Horizon == 5
\* entries beyond the capacity in the over-long sample downlink
OverCap == 1
\* longest table enumerated exhaustively for schedule evaluation
MaxLen == 2
\* last day after 1 Jan 1970 at which dayOfWeek is called
DowDays == 8

Monday0800 == (4 * 86400) + (8 * 3600)
T0 == Monday0800 + (4 * 60) + 30
TEnd == T0 + (Horizon * TX_INTERVAL)
\* values a downlink's cur-time or the network time reference may carry
SetPoints == {T0}

(***************************************************************************)
(* Clock and calendar                                                      *)
(***************************************************************************)
getHours(e) == (e \div 3600) % 24

getMinutes(e) == (e \div 60) % 60

\* the / and % of C: the quotient is truncated towards zero and the
\* remainder takes the sign of the dividend
CDiv(a, b) == IF a >= 0 THEN a \div b ELSE -((-a) \div b)

CMod(a, b) == a - (b * CDiv(a, b))

dayOfWeekIgnoringOffset(now, tz_offset) ==
    LET localtime == now
        days_since_epoch == CDiv(localtime, 86400)
    IN  CMod(days_since_epoch + 4, 7)

\* lines 162-172
dayOfWeek(now, tz_offset) ==
    LET localtime == now + (tz_offset * 60 * 60)
        days_since_epoch == CDiv(localtime, 86400)
    IN  CMod(days_since_epoch + 4, 7)

(***************************************************************************)
(* Schedule table                                                          *)
(***************************************************************************)
Schedule(st, d, h, m) == [powerState |-> st, dow |-> d, hour |-> h, min |-> m]

ZeroSched == Schedule(FALSE, 0, 0, 0)

MatchesExactMinute(s, now) ==
    /\ dayOfWeek(now, 0) = s.dow
    /\ getHours(now) = s.hour
    /\ getMinutes(now) = s.min

\* the condition of line 212
Matches(s, now) ==
    /\ dayOfWeek(now, 0) = s.dow
    /\ getHours(now) = s.hour
    /\ getMinutes(now) >= s.min

\* the loop of lines 184-216 over the cells inside the array
RECURSIVE ScanSchedules(_, _, _, _, _)
ScanSchedules(sched, n, now, i, newState) ==
    IF i >= n THEN newState
    ELSE ScanSchedules(sched, n, now, i + 1,
                       IF Matches(sched[i], now) THEN sched[i].powerState
                       ELSE newState)

\* the values checkSchedules may give powerState[0]: newState starts as
\* false (line 183); with schedCount > 25 the loop also reads the cells
\* past the array, whose content is not defined, so either value can result
checkSchedules(sched, count, now) ==
    IF count <= Capacity
    THEN {ScanSchedules(sched, count, now, 0, FALSE)}
    ELSE BOOLEAN

SetOutputByToggle(ps, ns) == IF ns THEN [ps EXCEPT ![0] = ~ps[0]] ELSE ps

SetBothOutputs(ps, ns) == [i \in 0..1 |-> ns]

\* lines 218-229: powerState[0] is assigned newState when the two differ
SetOutput(ps, ns) == IF ps[0] # ns THEN [ps EXCEPT ![0] = ns] ELSE ps

(***************************************************************************)
(* Documents                                                               *)
(***************************************************************************)
\* an absent field is "" (cmd), -1 (my-time), <<>> (state)
EmptyDoc == [cmd |-> "", myTime |-> -1, state |-> <<>>]

DocSize(d) == (IF d.cmd # "" THEN 1 ELSE 0)
              + (IF d.myTime # -1 THEN 1 ELSE 0)
              + (IF d.state # <<>> THEN 1 ELSE 0)

\* the uplink builder of statusUpdate, lines 456-477: the document after
\* both branches and which branch ran
BuildStatusAlways(doc, startup, now, ps) ==
    LET doc1 == IF startup = FALSE
                THEN [doc EXCEPT !.cmd = "start", !.myTime = now]
                ELSE doc
        doStatus == getMinutes(now) % 5 = 0
    IN  [doc |-> IF doStatus
                 THEN [doc1 EXCEPT !.cmd = "status", !.myTime = now,
                                   !.state = <<ps[0], ps[1]>>]
                 ELSE doc1,
         start |-> (startup = FALSE),
         status |-> doStatus]

BuildStatusEveryTick(doc, startup, now, ps) ==
    LET doc1 == IF startup = FALSE
                THEN [doc EXCEPT !.cmd = "start", !.myTime = now]
                ELSE doc
        doStatus == startup
    IN  [doc |-> IF doStatus
                 THEN [doc1 EXCEPT !.cmd = "status", !.myTime = now,
                                   !.state = <<ps[0], ps[1]>>]
                 ELSE doc1,
         start |-> (startup = FALSE),
         status |-> doStatus]

BuildStartAfterStartup(doc, startup, now, ps) ==
    LET doc1 == [doc EXCEPT !.cmd = "start", !.myTime = now]
        doStatus == startup /\ getMinutes(now) % 5 = 0
    IN  [doc |-> IF doStatus
                 THEN [doc1 EXCEPT !.cmd = "status", !.myTime = now,
                                   !.state = <<ps[0], ps[1]>>]
                 ELSE doc1,
         start |-> TRUE,
         status |-> doStatus]

BuildCommand(doc, startup, now, ps) ==
    LET doc1 == IF startup = FALSE
                THEN [doc EXCEPT !.cmd = "start", !.myTime = now]
                ELSE doc
        doStatus == startup /\ getMinutes(now) % 5 = 0
    IN  [doc |-> IF doStatus
                 THEN [doc1 EXCEPT !.cmd = "status", !.myTime = now,
                                   !.state = <<ps[0], ps[1]>>]
                 ELSE doc1,
         start |-> (startup = FALSE),
         status |-> doStatus]

(***************************************************************************)
(* Downlink payloads                                                       *)
(***************************************************************************)
\* characters are their ASCII codes; a string is a sequence of characters
\* tolower of one character
ToLower(c) == IF c >= 65 /\ c <= 90 THEN c + 32 ELSE c

equalsSameCase(a, b) == a = b

\* String::equalsIgnoreCase
equalsIgnoreCase(a, b) ==
    /\ Len(a) = Len(b)
    /\ \A k \in 1..Len(a) : ToLower(a[k]) = ToLower(b[k])

\* "init", "INIT", "Init", "stop"
InitCmd == <<105, 110, 105, 116>>
InitUpperCmd == <<73, 78, 73, 84>>
InitMixedCmd == <<73, 110, 105, 116>>
StopCmd == <<115, 116, 111, 112>>

IsDigit(c) == c >= 48 /\ c <= 57
DigitVal(c) == c - 48

\* atoi on a character buffer: the decimal value of the leading digits
RECURSIVE atoiFrom(_, _, _)
atoiFrom(buf, k, acc) ==
    IF k > Len(buf) \/ ~IsDigit(buf[k]) THEN acc
    ELSE atoiFrom(buf, k + 1, (10 * acc) + DigitVal(buf[k]))

atoi(buf) == atoiFrom(buf, 1, 0)

\* what the third cell of "char hour[3]" / "char min[3]" may hold: strncpy
\* copies two characters and writes no terminator, so the cell keeps
\* whatever was on the stack: a NUL, or some other character such as '7'
NUL == 0
StackCells == {<<NUL, NUL>>, <<55, NUL>>, <<NUL, 55>>}

\* lines 272-282 for one cmd-data element, gh and gm being the third cells
ParseSchedule(e, gh, gm) ==
    Schedule(e.st, e.dow,
             atoi(<<e.tm[1], e.tm[2], gh>>),
             atoi(<<e.tm[3], e.tm[4], gm>>))

\* the entry a cmd-data element stands for: "tm" is two digits of hour and
\* two digits of minute
EntryOf(e) ==
    Schedule(e.st, e.dow,
             (10 * DigitVal(e.tm[1])) + DigitVal(e.tm[2]),
             (10 * DigitVal(e.tm[3])) + DigitVal(e.tm[4]))

Elem(st, d, tm) == [st |-> st, dow |-> d, tm |-> tm]

\* {st: true, dow: 1, tm: "0805"} and so on
ElemOn5 == Elem(TRUE, 1, <<48, 56, 48, 53>>)
ElemOff7 == Elem(FALSE, 1, <<48, 56, 48, 55>>)
ElemOn0 == Elem(TRUE, 1, <<48, 56, 48, 48>>)
ElemOff5 == Elem(FALSE, 1, <<48, 56, 48, 53>>)

LongData(n) ==
    [k \in 1..n |-> IF k = 1 THEN ElemOn5
                    ELSE IF k = 2 THEN ElemOff7
                    ELSE IF k % 2 = 1 THEN ElemOn0 ELSE ElemOff5]

\* LMIC.dataLen = 0
NoData == [len |-> 0, ok |-> FALSE, cmd |-> <<>>, curTime |-> 0, cmdData |-> <<>>]
\* bytes that deserializeMsgPack rejects
BadData == [len |-> 1, ok |-> FALSE, cmd |-> <<>>, curTime |-> 0, cmdData |-> <<>>]

\* bytes that deserializeMsgPack rejects after it has filled in part of the
\* document: cmd, cur-time and one element are there when the error comes
BadInit == [len |-> 1, ok |-> FALSE, cmd |-> InitCmd, curTime |-> T0,
            cmdData |-> <<ElemOn0>>]

Decoded(c, t, d) == [len |-> 1, ok |-> TRUE, cmd |-> c, curTime |-> t, cmdData |-> d]

\* Monday 08:05:30
T1 == T0 + 60

\* the sample downlinks: short tables
Payloads ==
    {NoData, BadData, BadInit,
     Decoded(InitUpperCmd, T1, <<ElemOn5, ElemOff7>>),
     Decoded(InitMixedCmd, T0, <<>>),
     Decoded(StopCmd, T0, <<ElemOn5, ElemOff7>>)}
    \cup {Decoded(InitCmd, t, d) : t \in SetPoints, d \in {<<>>, <<ElemOn5, ElemOff7>>}}

\* the sample downlinks: a table that fills the array and one that is longer
LongPayloads ==
    {NoData}
    \cup {Decoded(InitCmd, t, d) : t \in SetPoints,
                                   d \in {LongData(Capacity), LongData(Capacity + OverCap)}}

TakesInitOnAnyCommand(p) == p.len > 0 /\ p.ok

TakesInitDespiteError(p) == p.len > 0 /\ equalsIgnoreCase(p.cmd, InitCmd)

\* the init branch of processDownlink is taken (lines 234, 243, 260)
TakesInit(p) == p.len > 0 /\ p.ok /\ equalsIgnoreCase(p.cmd, InitCmd)

Max2(a, b) == IF a > b THEN a ELSE b

StoreTableFirstCellOnly(sched, data, n, gh, gm) ==
    [i \in 0..(Capacity - 1) |->
        IF i < n /\ i = 0 THEN ParseSchedule(data[i + 1], gh, gm) ELSE sched[i]]

\* the loop of lines 266-296: cell i takes element i of cmd-data for every
\* i below the count; only the cells inside the array are kept here
StoreTable(sched, data, n, gh, gm) ==
    [i \in 0..(Capacity - 1) |->
        IF i < n THEN ParseSchedule(data[i + 1], gh, gm) ELSE sched[i]]

SchedCountKeepLargest(data, count) == Max2(count, Len(data) % U8)

\* line 265, schedCount being a u_int8_t
SchedCountOf(data, count) == Len(data) % U8

StartUpOnAnyCommand(p, startup) == IF p.len > 0 /\ p.ok THEN TRUE ELSE startup

\* line 298, reached only inside the init branch
StartUpAfter(p, startup) == IF TakesInit(p) THEN TRUE ELSE startup

(***************************************************************************)
(* Observation record                                                      *)
(***************************************************************************)
Idle(h) == [handler |-> h, start |-> FALSE, status |-> FALSE, doc |-> EmptyDoc,
            called |-> FALSE, sent |-> EmptyDoc, accepted |-> FALSE,
            evaluated |-> FALSE, before |-> FALSE,
            dl |-> NoData, ack |-> FALSE, flagAtDl |-> FALSE, ev |-> "",
            evals |-> 0, ref |-> 0, tz |-> 0, day |-> 0, prior |-> ""]

(***************************************************************************)
(* Initial state: the statics of lines 45-54 and 81-87                     *)
(***************************************************************************)
Init ==
    /\ pc = "boot"
    /\ epoch = T0
    /\ powerSched = [i \in 0..(Capacity - 1) |-> ZeroSched]
    /\ schedCount = 0
    /\ powerState = [i \in 0..1 |-> FALSE]
    /\ startUpComplete = FALSE
    /\ txInProg = FALSE
    /\ timeSet = FALSE
    /\ cmdJson = EmptyDoc
    /\ txrxPend = FALSE
    /\ timeReq = FALSE
    /\ armed = 0
    /\ maxIdx = -1
    /\ last = Idle("boot")

(***************************************************************************)
(* do_send, lines 401-443                                                  *)
(***************************************************************************)
do_sendIgnoringPend(doc, pend) ==
    IF DocSize(doc) > 0
    THEN [called |-> TRUE, sent |-> doc, doc |-> EmptyDoc]
    ELSE [called |-> FALSE, sent |-> EmptyDoc, doc |-> doc]

do_sendWithoutClear(doc, pend) ==
    IF pend
    THEN [called |-> FALSE, sent |-> EmptyDoc, doc |-> doc]
    ELSE IF DocSize(doc) > 0
         THEN [called |-> TRUE, sent |-> doc, doc |-> doc]
         ELSE [called |-> FALSE, sent |-> EmptyDoc, doc |-> doc]

\* the result of one call: whether LMIC_setTxData2 was called (line 426),
\* with what, and cmdJson afterwards (line 440 clears it once the branch of
\* line 419 is entered, whatever sndErr is)
do_send(doc, pend) ==
    IF pend
    THEN [called |-> FALSE, sent |-> EmptyDoc, doc |-> doc]
    ELSE IF DocSize(doc) > 0
         THEN [called |-> TRUE, sent |-> doc, doc |-> EmptyDoc]
         ELSE [called |-> FALSE, sent |-> EmptyDoc, doc |-> doc]

\* lines 490-493
SendStep(doc, inProg, pend) ==
    IF inProg = FALSE THEN do_send(doc, pend)
    ELSE [called |-> FALSE, sent |-> EmptyDoc, doc |-> doc]

(***************************************************************************)
(* statusUpdate, lines 450-499, fired at clock value now by handler h      *)
(***************************************************************************)
statusUpdateEvaluatesBeforeStartup(now, h) ==
    LET b == BuildCommand(cmdJson, startUpComplete, now, powerState)
        s == SendStep(b.doc, txInProg, txrxPend)
    IN  \E ns \in checkSchedules(powerSched, schedCount, now) :
        \E accepted \in (IF s.called THEN BOOLEAN ELSE {FALSE}) :
            /\ epoch' = now
            /\ powerState' = SetOutput(powerState, ns)
            /\ cmdJson' = s.doc
            /\ txrxPend' = (txrxPend \/ (s.called /\ accepted))
            /\ last' = [Idle(h) EXCEPT !.start = b.start, !.status = b.status,
                                       !.doc = b.doc, !.called = s.called,
                                       !.sent = s.sent, !.accepted = accepted,
                                       !.evaluated = TRUE,
                                       !.before = powerState[0],
                                       !.prior = cmdJson.cmd]
            /\ UNCHANGED <<powerSched, schedCount, startUpComplete, txInProg,
                           timeSet, timeReq, maxIdx>>

statusUpdateEvaluatesFirst(now, h) ==
    \E ns \in (IF startUpComplete
                THEN checkSchedules(powerSched, schedCount, now)
                ELSE {powerState[0]}) :
        LET b == BuildCommand(cmdJson, startUpComplete, now,
                              SetOutput(powerState, ns))
            s == SendStep(b.doc, txInProg, txrxPend)
        IN  \E accepted \in (IF s.called THEN BOOLEAN ELSE {FALSE}) :
            /\ epoch' = now
            /\ powerState' = SetOutput(powerState, ns)
            /\ cmdJson' = s.doc
            /\ txrxPend' = (txrxPend \/ (s.called /\ accepted))
            /\ last' = [Idle(h) EXCEPT !.start = b.start, !.status = b.status,
                                       !.doc = b.doc, !.called = s.called,
                                       !.sent = s.sent, !.accepted = accepted,
                                       !.evaluated = startUpComplete,
                                       !.before = powerState[0],
                                       !.prior = cmdJson.cmd]
            /\ UNCHANGED <<powerSched, schedCount, startUpComplete, txInProg,
                           timeSet, timeReq, maxIdx>>

\* in the order of the code: the builder (456-477) reads the outputs, then
\* the evaluation (482-485) may change output 0, then the send step
\* (490-493) hands over what the builder left
statusUpdate(now, h) ==
    LET b == BuildCommand(cmdJson, startUpComplete, now, powerState)
        s == SendStep(b.doc, txInProg, txrxPend)
    IN  \E ns \in (IF startUpComplete
                   THEN checkSchedules(powerSched, schedCount, now)
                   ELSE {powerState[0]}) :
        \E accepted \in (IF s.called THEN BOOLEAN ELSE {FALSE}) :
            /\ epoch' = now
            /\ powerState' = SetOutput(powerState, ns)
            /\ cmdJson' = s.doc
            /\ txrxPend' = (txrxPend \/ (s.called /\ accepted))
            /\ last' = [Idle(h) EXCEPT !.start = b.start, !.status = b.status,
                                       !.doc = b.doc, !.called = s.called,
                                       !.sent = s.sent, !.accepted = accepted,
                                       !.evaluated = startUpComplete,
                                       !.before = powerState[0],
                                       !.prior = cmdJson.cmd]
            /\ UNCHANGED <<powerSched, schedCount, startUpComplete, txInProg,
                           timeSet, timeReq, maxIdx>>

RearmSkipped(a) == a

\* line 498, the last statement of statusUpdate on its only path: one more
\* instance of statusJob is queued
Rearm(a) == a + 1

\* setup(), lines 501-521: calls statusUpdate directly, which arms the job
Setup ==
    /\ pc = "boot"
    /\ pc' = "run"
    /\ armed' = Rearm(armed)
    /\ statusUpdate(epoch, "setup")

\* the armed job fires TX_INTERVAL seconds after it was armed and re-arms
Tick ==
    /\ pc = "run"
    /\ armed > 0
    /\ epoch + TX_INTERVAL <= TEnd
    /\ armed' = Rearm(armed - 1)
    /\ statusUpdate(epoch + TX_INTERVAL, "tick")
    /\ UNCHANGED pc

(***************************************************************************)
(* processDownlink, lines 232-303, called by handler h                     *)
(***************************************************************************)
processDownlinkEvaluatesFirst(p, h, ack, flag) ==
    IF TakesInit(p)
    THEN \E g \in StackCells :
           LET n == SchedCountOf(p.cmdData, schedCount)
               tbl == StoreTable(powerSched, p.cmdData, n, g[1], g[2])
           IN  \E ns \in checkSchedules(powerSched, schedCount, epoch) :
                 /\ epoch' = p.curTime
                 /\ schedCount' = n
                 /\ powerSched' = tbl
                 /\ maxIdx' = Max2(maxIdx, n - 1)
                 /\ startUpComplete' = StartUpAfter(p, startUpComplete)
                 /\ powerState' = SetOutput(powerState, ns)
                 /\ last' = [Idle(h) EXCEPT !.dl = p, !.ack = ack,
                                            !.flagAtDl = flag,
                                            !.evaluated = TRUE,
                                            !.before = powerState[0]]
    ELSE /\ startUpComplete' = StartUpAfter(p, startUpComplete)
         /\ last' = [Idle(h) EXCEPT !.dl = p, !.ack = ack, !.flagAtDl = flag]
         /\ UNCHANGED <<epoch, schedCount, powerSched, maxIdx, powerState>>

\* an init sets the clock (line 262), stores the count and the table (265-296),
\* completes startup (298) and evaluates the table just stored at the clock
\* value just set (299); everything else returns without a write
processDownlink(p, h, ack, flag) ==
    IF TakesInit(p)
    THEN \E g \in StackCells :
           LET n == SchedCountOf(p.cmdData, schedCount)
               tbl == StoreTable(powerSched, p.cmdData, n, g[1], g[2])
           IN  \E ns \in checkSchedules(tbl, n, p.curTime) :
                 /\ epoch' = p.curTime
                 /\ schedCount' = n
                 /\ powerSched' = tbl
                 /\ maxIdx' = Max2(maxIdx, n - 1)
                 /\ startUpComplete' = StartUpAfter(p, startUpComplete)
                 /\ powerState' = SetOutput(powerState, ns)
                 /\ last' = [Idle(h) EXCEPT !.dl = p, !.ack = ack,
                                            !.flagAtDl = flag,
                                            !.evaluated = TRUE,
                                            !.before = powerState[0]]
    ELSE /\ startUpComplete' = StartUpAfter(p, startUpComplete)
         /\ last' = [Idle(h) EXCEPT !.dl = p, !.ack = ack, !.flagAtDl = flag]
         /\ UNCHANGED <<epoch, schedCount, powerSched, maxIdx, powerState>>

(***************************************************************************)
(* onEvent, lines 319-399                                                  *)
(***************************************************************************)
TxCompleteFlagSet == TRUE

\* line 362
TxCompleteFlag == FALSE

\* EV_TXCOMPLETE: the transport's transmission is over, with or without an
\* acknowledgement and with or without downlink bytes
OnTxComplete(P) ==
    /\ pc = "run"
    /\ txrxPend
    /\ \E ack \in BOOLEAN, p \in P :
         /\ txInProg' = TxCompleteFlag
         /\ txrxPend' = FALSE
         /\ processDownlink(p, "txcomplete", ack, txInProg')
    /\ UNCHANGED <<pc, timeSet, cmdJson, timeReq, armed>>

\* EV_RXCOMPLETE
OnRxComplete(P) ==
    /\ pc = "run"
    /\ \E p \in P : processDownlink(p, "rxcomplete", FALSE, txInProg)
    /\ UNCHANGED <<pc, txInProg, txrxPend, timeSet, cmdJson, timeReq, armed>>

\* EV_JOINED: joinComplete, lines 309-317, requests the network time
OnJoined ==
    /\ pc = "run"
    /\ timeReq' = TRUE
    /\ last' = [Idle("event") EXCEPT !.ev = "EV_JOINED"]
    /\ UNCHANGED <<pc, epoch, powerSched, schedCount, powerState,
                   startUpComplete, txInProg, timeSet, cmdJson, txrxPend,
                   armed, maxIdx>>

OtherEvents == {"EV_TXSTART", "UNKNOWN"}

\* every other case of the switch only logs
OnOtherEvent ==
    /\ pc = "run"
    /\ \E e \in OtherEvents : last' = [Idle("event") EXCEPT !.ev = e]
    /\ UNCHANGED <<pc, epoch, powerSched, schedCount, powerState,
                   startUpComplete, txInProg, timeSet, cmdJson, txrxPend,
                   timeReq, armed, maxIdx>>

(***************************************************************************)
(* network_time_cb, lines 94-103                                           *)
(***************************************************************************)
NetworkTimeCbAlwaysSynchronized ==
    /\ pc = "run"
    /\ timeReq
    /\ timeReq' = FALSE
    /\ \E avail \in BOOLEAN, t \in SetPoints :
         /\ epoch' = IF avail THEN t ELSE epoch
         /\ timeSet' = TRUE
         /\ last' = [Idle("timecb") EXCEPT !.accepted = avail, !.ref = t]
    /\ UNCHANGED <<pc, powerSched, schedCount, powerState, startUpComplete,
                   txInProg, cmdJson, txrxPend, armed, maxIdx>>

\* the callback asked for by joinComplete: with a reference available
\* (LMIC_getNetworkTimeReference > 0) the clock is set to it and timeSet
\* becomes true, otherwise nothing is written
NetworkTimeCb ==
    /\ pc = "run"
    /\ timeReq
    /\ timeReq' = FALSE
    /\ \E avail \in BOOLEAN, t \in SetPoints :
         /\ epoch' = IF avail THEN t ELSE epoch
         /\ timeSet' = IF avail THEN TRUE ELSE timeSet
         /\ last' = [Idle("timecb") EXCEPT !.accepted = avail, !.ref = t]
    /\ UNCHANGED <<pc, powerSched, schedCount, powerState, startUpComplete,
                   txInProg, cmdJson, txrxPend, armed, maxIdx>>

Next ==
    \/ Setup
    \/ Tick
    \/ OnTxComplete(Payloads)
    \/ OnRxComplete(Payloads)
    \/ OnJoined
    \/ OnOtherEvent
    \/ NetworkTimeCb

Spec == Init /\ [][Next]_vars

\* the same program fed the long tables
NextCap ==
    \/ Setup
    \/ Tick
    \/ OnTxComplete(LongPayloads)
    \/ OnRxComplete(LongPayloads)

SpecCap == Init /\ [][NextCap]_vars

(***************************************************************************)
(* checkSchedules on its own: every table of at most MaxLen entries over   *)
(* EvalPool, the cells behind the count holding what an earlier, longer    *)
(* table left there, at every minute of Monday 08:xx and at two times      *)
(* outside that hour                                                       *)
(***************************************************************************)
EvalPool == {Schedule(st, d, 8, m) : st \in BOOLEAN, d \in {1, 2}, m \in {0, 30}}

EvalTables == UNION {[0..(n - 1) -> EvalPool] : n \in 0..MaxLen}

EvalTimes == {Monday0800 + (60 * m) + 15 : m \in 0..59}
             \cup {Monday0800 + 3600, Monday0800 + 86400 + (45 * 60)}

StaleCells == {ZeroSched, Schedule(TRUE, 1, 8, 0)}

InitEval ==
    /\ pc = "run"
    /\ epoch \in EvalTimes
    /\ \E t \in EvalTables, f \in StaleCells :
         /\ schedCount = Cardinality(DOMAIN t)
         /\ powerSched = [i \in 0..(Capacity - 1) |->
                            IF i \in DOMAIN t THEN t[i] ELSE f]
         /\ maxIdx = IF f = ZeroSched THEN Cardinality(DOMAIN t) - 1
                     ELSE Capacity - 1
    /\ powerState \in {[i \in 0..1 |-> IF i = 0 THEN b ELSE FALSE] : b \in BOOLEAN}
    /\ startUpComplete = TRUE
    /\ txInProg = FALSE
    /\ timeSet = FALSE
    /\ cmdJson = EmptyDoc
    /\ txrxPend = FALSE
    /\ timeReq = FALSE
    /\ armed = 1
    /\ last = Idle("boot")

\* one call of checkSchedules(), lines 174-230
Evaluate ==
    /\ \E ns \in checkSchedules(powerSched, schedCount, epoch) :
         powerState' = SetOutput(powerState, ns)
    /\ last' = [Idle("eval") EXCEPT !.evaluated = TRUE, !.before = powerState[0],
                                    !.evals = IF last.evals < 2
                                              THEN last.evals + 1 ELSE 2]
    /\ UNCHANGED <<pc, epoch, powerSched, schedCount, startUpComplete, txInProg,
                   timeSet, cmdJson, txrxPend, timeReq, armed, maxIdx>>

NextEval == Evaluate

SpecEval == InitEval /\ [][NextEval]_vars

(***************************************************************************)
(* dayOfWeek on its own: called with each offset of TzOffsets at the last  *)
(* second before 08:00, 22:00 and 24:00 UTC of the days 0..DowDays and at  *)
(* epoch 0, and called again after the clock has moved on by one second    *)
(***************************************************************************)
TzOffsets == {-8, 0, 2}

DowTimes ==
    {0} \cup {(d * 86400) + (h * 3600) - 1 : d \in 0..DowDays, h \in {8, 22, 24}}

InitDow ==
    /\ pc = "run"
    /\ epoch \in DowTimes
    /\ powerSched = [i \in 0..(Capacity - 1) |-> ZeroSched]
    /\ schedCount = 0
    /\ powerState = [i \in 0..1 |-> FALSE]
    /\ startUpComplete = FALSE
    /\ txInProg = FALSE
    /\ timeSet = FALSE
    /\ cmdJson = EmptyDoc
    /\ txrxPend = FALSE
    /\ timeReq = FALSE
    /\ armed = 1
    /\ maxIdx = -1
    /\ last = Idle("boot")

\* one call dayOfWeek(rtc.getEpoch(), tz)
DayOfWeekCall ==
    /\ last.handler = "boot"
    /\ \E tz \in TzOffsets :
         last' = [Idle("dow") EXCEPT !.tz = tz, !.day = dayOfWeek(epoch, tz),
                                     !.ev = "call"]
    /\ UNCHANGED <<pc, epoch, powerSched, schedCount, powerState,
                   startUpComplete, txInProg, timeSet, cmdJson, txrxPend,
                   timeReq, armed, maxIdx>>

\* the clock moves on by one second and dayOfWeek is called again with the
\* same offset
SecondPasses ==
    /\ last.handler = "dow"
    /\ epoch % 3600 = 3599
    /\ epoch' = epoch + 1
    /\ last' = [Idle("dow") EXCEPT !.tz = last.tz,
                                   !.day = dayOfWeek(epoch', last.tz),
                                   !.ev = "second"]
    /\ UNCHANGED <<pc, powerSched, schedCount, powerState, startUpComplete,
                   txInProg, timeSet, cmdJson, txrxPend, timeReq, armed,
                   maxIdx>>

NextDow ==
    \/ DayOfWeekCall
    \/ SecondPasses

SpecDow == InitDow /\ [][NextDow]_vars

(***************************************************************************)
(* Properties                                                              *)
(***************************************************************************)
\* the entries of the table in force that the clock value has reached:
\* same day of week, same hour, minute threshold not above the minute
Reached(now) ==
    {i \in 0..(schedCount - 1) :
        /\ i < Capacity
        /\ powerSched[i].dow = dayOfWeek(now, 0)
        /\ powerSched[i].hour = getHours(now)
        /\ powerSched[i].min <= getMinutes(now)}

LastOf(S) == CHOOSE i \in S : \A j \in S : j <= i

IsTick == last.handler \in {"setup", "tick"}
IsDownlink == last.handler \in {"txcomplete", "rxcomplete"}
IsInitDownlink(p) == p.len > 0 /\ p.ok /\ equalsIgnoreCase(p.cmd, InitCmd)

\* C1: when checkSchedules has run at the clock value and at least one
\* entry of the table is reached, output 0 is the desired state of the last
\* reached entry in table order, whatever the order of the thresholds and
\* whatever the minute.
C1_LastReachedEntryWins ==
    (last.handler = "eval" /\ Reached(epoch) # {})
        => powerState[0] = powerSched[LastOf(Reached(epoch))].powerState

\* C1 witness: at minute 59 two reached entries disagree, the later one in
\* table order has the lower threshold, and the evaluation has run.
C1_Witness ==
    /\ last.handler = "eval"
    /\ getMinutes(epoch) = 59
    /\ \E i \in Reached(epoch), j \in Reached(epoch) :
         /\ i < j
         /\ powerSched[i].min > powerSched[j].min
         /\ powerSched[i].powerState # powerSched[j].powerState
         /\ j = LastOf(Reached(epoch))

\* C2: when the schedule evaluation has run and no entry is reached, output
\* 0 has the value it had before the evaluation.
C2_NoMatchKeepsState ==
    (last.evaluated /\ Reached(epoch) = {}) => powerState[0] = last.before

\* C3: after a well-formed init downlink with N <= 25 entries the table
\* holds exactly those N entries in cmd-data order, the count is N and
\* startup is complete.
C3_InitStoresTable ==
    (IsDownlink /\ IsInitDownlink(last.dl) /\ Len(last.dl.cmdData) <= Capacity)
        => /\ schedCount = Len(last.dl.cmdData)
           /\ \A i \in 0..(schedCount - 1) :
                powerSched[i] = EntryOf(last.dl.cmdData[i + 1])
           /\ startUpComplete

\* C4: the count never exceeds the capacity of 25 and no cell at an index
\* of 25 or more is ever written.
C4_CountWithinCapacity == schedCount <= Capacity /\ maxIdx < Capacity

\* C5: startup_complete starts false, changes only from false to true and
\* only in the step that processes a well-formed init downlink, every such
\* step leaves it true, and it never goes back to false.
C5_StartupOnlyByInit ==
    /\ startUpComplete = FALSE
    /\ [][/\ (startUpComplete' # startUpComplete)
               => /\ startUpComplete = FALSE
                  /\ last'.handler \in {"txcomplete", "rxcomplete"}
                  /\ IsInitDownlink(last'.dl)
          /\ (last'.handler \in {"txcomplete", "rxcomplete"}
                /\ IsInitDownlink(last'.dl)) => startUpComplete']_vars

\* C5 witness: an init downlink has just been processed and the flag is set.
C5_Witness ==
    /\ IsDownlink
    /\ IsInitDownlink(last.dl)
    /\ startUpComplete

\* C6: right after the periodic job has handed a command to the transport,
\* transmission_in_flight is true.
C6_SendSetsInFlight == last.called => txInProg

C9_StatusIffFiveMinutes ==
    [][(last'.handler = "tick" /\ startUpComplete)
         => IF getMinutes(epoch') % 5 = 0
            THEN /\ last'.status
                 /\ last'.doc = [cmd |-> "status", myTime |-> epoch',
                                 state |-> <<powerState[0], powerState[1]>>]
            ELSE /\ last'.status = FALSE
                 /\ last'.doc = cmdJson]_vars

\* C9 witness: after startup the job has fired at a multiple of 5 and built
\* a status.
C9_Witness ==
    /\ last.handler = "tick"
    /\ startUpComplete
    /\ getMinutes(epoch) % 5 = 0
    /\ last.doc.cmd = "status"

\* C10: in a firing of the periodic job after startup at a minute that is
\* not a multiple of 5, the pending document is empty when the send step
\* runs and nothing is handed to the transport.
C10_NothingPendingOffFive ==
    (last.handler = "tick" /\ startUpComplete /\ getMinutes(epoch) % 5 # 0)
        => (DocSize(last.doc) = 0 /\ last.called = FALSE)

\* C11: a firing of the periodic job calls the transport's send only when
\* the transport has no TX/RX pending, transmission_in_flight is false and
\* the pending document, as it stands at the send step, is not empty; when
\* one of the three fails there is no call and the pending document stays
\* as it stood at the send step.
C11_SendOnlyWhenFree ==
    [][(last'.handler \in {"setup", "tick"})
         => LET free == /\ txrxPend = FALSE
                        /\ txInProg = FALSE
                        /\ DocSize(last'.doc) > 0
            IN  /\ last'.called => free
                /\ (~free) => (last'.called = FALSE /\ cmdJson' = last'.doc)]_vars

\* C11 witness: the job has fired with a command pending while the
\* transport was busy; nothing was handed over and the command is kept.
C11_Witness ==
    /\ last.handler = "tick"
    /\ txrxPend
    /\ DocSize(last.doc) > 0
    /\ last.called = FALSE
    /\ cmdJson = last.doc

\* C12: once a command has been handed to the transport the pending
\* document is empty, accepted or not; the pending document is filled only
\* by the builder, so a firing that hands a command over right after an
\* empty slot hands over one built in that firing.
C12_HandedOverIsCleared ==
    [][/\ last'.called => cmdJson' = EmptyDoc
       /\ (cmdJson' # cmdJson /\ cmdJson' # EmptyDoc)
             => (last'.start \/ last'.status)
       /\ (cmdJson = EmptyDoc /\ last'.called)
             => (last'.start \/ last'.status)]_vars

\* C12 witness: the transport has rejected the command handed to it and
\* the pending document is empty.
C12_Witness ==
    /\ last.called
    /\ last.accepted = FALSE
    /\ DocSize(last.sent) > 0
    /\ cmdJson = EmptyDoc

\* C13: a downlink whose bytes fail to decode changes neither the clock,
\* nor the table and its count, nor startup_complete, nor the outputs, nor
\* the pending document, and the program goes on: the job stays armed.
C13_DecodeFailureChangesNothing ==
    [][(/\ last'.handler \in {"txcomplete", "rxcomplete"}
        /\ last'.dl.len > 0
        /\ last'.dl.ok = FALSE)
         => /\ UNCHANGED <<epoch, powerSched, schedCount, startUpComplete,
                           powerState, cmdJson>>
            /\ last'.evaluated = FALSE
            /\ pc' = "run"
            /\ armed' > 0]_vars

\* C13 witness: after startup, with a table in force and the clock away
\* from the cur-time the broken bytes carry, a downlink that fails to decode
\* after "init" was read has been handled.
C13_Witness ==
    /\ last.handler = "rxcomplete"
    /\ last.dl = BadInit
    /\ startUpComplete
    /\ schedCount > 0
    /\ epoch # last.dl.curTime

\* every spelling of "init" in upper and lower case letters
InitSpellings ==
    {<<a, b, c, d>> : a \in {105, 73}, b \in {110, 78},
                      c \in {105, 73}, d \in {116, 84}}

\* C14: a decoded downlink whose cmd is not a spelling of "init" sets
\* nothing: clock, table, count, startup_complete and outputs stay and no
\* evaluation runs; one whose cmd is any spelling of "init", "INIT" and
\* "Init" included, sets the clock to cur-time, the count to the length of
\* cmd-data, completes startup and runs the evaluation.
C14_OnlyInitActs ==
    [][(/\ last'.handler \in {"txcomplete", "rxcomplete"}
        /\ last'.dl.len > 0
        /\ last'.dl.ok)
         => IF last'.dl.cmd \in InitSpellings
            THEN /\ epoch' = last'.dl.curTime
                 /\ schedCount' = Len(last'.dl.cmdData)
                 /\ startUpComplete'
                 /\ last'.evaluated
            ELSE /\ UNCHANGED <<epoch, powerSched, schedCount,
                                startUpComplete, powerState>>
                 /\ last'.evaluated = FALSE]_vars

\* C14 witness: a decoded "stop" downlink has been handled before startup
\* while the clock differs from its cur-time.
C14_Witness ==
    /\ IsDownlink
    /\ last.dl.ok
    /\ last.dl.cmd = StopCmd
    /\ Len(last.dl.cmdData) > 0
    /\ epoch # last.dl.curTime
    /\ startUpComplete = FALSE
    /\ schedCount = 0

\* C15: a second evaluation right after a first one, with the same clock
\* value and the same table, leaves the outputs as the first one left them:
\* the state-change branch is not taken again.
C15_SecondEvaluationChangesNothing ==
    [][(last.handler = "eval" /\ last'.handler = "eval")
         => (powerState' = powerState /\ last'.before = powerState'[0])]_vars

\* C15 witness: two evaluations have run in succession on a table with a
\* reached entry that switches the output on.
C15_Witness ==
    /\ last.handler = "eval"
    /\ last.evals = 2
    /\ Reached(epoch) # {}
    /\ powerState[0] = TRUE

\* C16: no instance of the periodic job is armed before setup and exactly
\* one is armed at any time afterwards: every firing takes the armed
\* instance and arms one again.
C16_OneJobArmed ==
    /\ (pc = "boot") => (armed = 0)
    /\ (pc = "run") => (armed = 1)

\* C16 witness: the job has fired at least twice after setup and one
\* instance is armed.
C16_Witness ==
    /\ last.handler = "tick"
    /\ epoch >= T0 + (2 * TX_INTERVAL)
    /\ armed = 1

\* C17: output 1 is false in every state, every status built reports false
\* as the second element of state, the outputs change only in a step that
\* runs the schedule evaluation, and such a step changes output 0 only.
C17_OutputOneNeverWritten ==
    /\ powerState[1] = FALSE
    /\ (last.doc.cmd = "status") => (last.doc.state[2] = FALSE)
    /\ (cmdJson.cmd = "status") => (cmdJson.state[2] = FALSE)
    /\ [][(powerState' # powerState)
            => (last'.evaluated /\ powerState'[1] = powerState[1])]_vars

\* C17 witness: output 0 is on and a status reporting [true, false] has
\* been handed to the transport.
C17_Witness ==
    /\ last.handler = "tick"
    /\ last.called
    /\ last.sent.cmd = "status"
    /\ last.sent.state = <<TRUE, FALSE>>
    /\ powerState[0] = TRUE

\* C18: when a decoded init downlink has been processed the clock is at the
\* cur-time of the downlink, the evaluation has run, and if an entry of the
\* table now in force is reached at that clock value output 0 already is
\* the desired state of the last such entry.
C18_InitEvaluatesNewTable ==
    (/\ IsDownlink
     /\ last.dl.len > 0
     /\ last.dl.ok
     /\ last.dl.cmd \in InitSpellings)
        => /\ epoch = last.dl.curTime
           /\ last.evaluated
           /\ (Reached(epoch) # {})
                => powerState[0] = powerSched[LastOf(Reached(epoch))].powerState

\* C18 witness: an init carrying cur-time 08:05:30 and a table with an
\* entry reached at 08:05 has been processed while output 0 was off, and
\* output 0 is on.
C18_Witness ==
    /\ IsDownlink
    /\ last.dl.ok
    /\ last.dl.cmd \in InitSpellings
    /\ epoch = T1
    /\ Reached(epoch) # {}
    /\ last.before = FALSE
    /\ powerState[0] = TRUE

\* C19: a network-time callback with a reference available sets the clock
\* to the reference and time_is_synchronized to true; one without a
\* reference leaves both as they were; the flag changes in no other step
\* and never goes back to false.
C19_TimeSyncOnlyWithReference ==
    [][/\ (last'.handler = "timecb")
            => IF last'.accepted
               THEN epoch' = last'.ref /\ timeSet'
               ELSE UNCHANGED <<epoch, timeSet>>
       /\ (timeSet' # timeSet) => (last'.handler = "timecb" /\ timeSet')]_vars

\* C19 witness: the callback has fired with a reference available, the
\* flag is set and the clock is at the reference.
C19_Witness ==
    /\ last.handler = "timecb"
    /\ last.accepted
    /\ timeSet
    /\ epoch = last.ref

IsWholeTable ==
    \/ schedCount = 0
    \/ \E p \in Payloads, g \in StackCells :
         /\ p.len > 0
         /\ p.ok
         /\ p.cmd \in InitSpellings
         /\ schedCount = Len(p.cmdData)
         /\ \A i \in 0..(schedCount - 1) :
              powerSched[i] = ParseSchedule(p.cmdData[i + 1], g[1], g[2])

\* C21: whatever handlers ran before it and in whatever order, a firing of
\* the periodic job that evaluates the schedule finds the count and every
\* entry below it as one single init downlink stored them, and leaves
\* them so.
C21_TickSeesWholeTable ==
    [][(last'.handler \in {"setup", "tick"} /\ last'.evaluated)
         => /\ IsWholeTable
            /\ UNCHANGED <<powerSched, schedCount>>]_vars

\* C21 witness: a two-entry table was replaced by an empty one, the cells
\* of the old table are still in the array behind the count, and the
\* periodic job has evaluated the schedule.
C21_Witness ==
    /\ last.handler = "tick"
    /\ last.evaluated
    /\ schedCount = 0
    /\ powerSched[0] # ZeroSched
    /\ powerSched[1] # ZeroSched

\* the step just taken processed a decoded downlink whose cmd is a spelling
\* of "init"
InitStep ==
    /\ last'.handler \in {"txcomplete", "rxcomplete"}
    /\ last'.dl.len > 0
    /\ last'.dl.ok
    /\ last'.dl.cmd \in InitSpellings

\* C22 as stated: every step other than the processing of an init downlink
\* leaves the table, its count, the outputs and startup_complete unchanged.
C22_OnlyInitChangesAnything ==
    [][(~InitStep)
         => UNCHANGED <<powerSched, schedCount, powerState,
                        startUpComplete>>]_vars

\* C22 amended: every step other than the processing of an init downlink
\* leaves the table, its count and startup_complete unchanged, and changes
\* the outputs only if it is a firing of the periodic job after startup,
\* whose schedule evaluation may change output 0.
C22_OnlyInitChangesTable ==
    [][(~InitStep)
         => /\ UNCHANGED <<powerSched, schedCount, startUpComplete>>
            /\ (powerState' # powerState)
                 => /\ last'.handler \in {"setup", "tick"}
                    /\ startUpComplete
                    /\ last'.evaluated
                    /\ powerState'[1] = powerState[1]]_vars

\* C22 witness: with a table in force the periodic job has fired after
\* startup and its evaluation has changed output 0.
C22_Witness ==
    /\ last.handler = "tick"
    /\ startUpComplete
    /\ schedCount > 0
    /\ last.evaluated
    /\ powerState[0] # last.before

\* the local time in seconds of the latest call of dayOfWeek
LocalTime == epoch + (last.tz * 3600)

\* C23: for a non-negative local time dayOfWeek returns
\* ((now + tz_offset*3600) div 86400 + 4) mod 7, a value in 0..6, which is
\* 4 at epoch 0 with offset 0; when the local time moves on by one second
\* the result goes up by 1 modulo 7 if the new local time is a multiple of
\* 86400 and stays the same otherwise.
C23_DayOfWeekFormula ==
    /\ (last.handler = "dow" /\ LocalTime >= 0)
         => /\ last.day = (((epoch + (last.tz * 3600)) \div 86400) + 4) % 7
            /\ last.day \in 0..6
            /\ (epoch = 0 /\ last.tz = 0) => last.day = 4
    /\ [][(last.handler = "dow" /\ last'.ev = "second" /\ LocalTime >= 0)
            => IF LocalTime' % 86400 = 0
               THEN last'.day = (last.day + 1) % 7
               ELSE last'.day = last.day]_vars

\* C23 witness: with offset -8 the local time has just crossed the midnight
\* that begins Monday 5 Jan 1970 and the result is 1.
C23_Witness ==
    /\ last.handler = "dow"
    /\ last.ev = "second"
    /\ last.tz = -8
    /\ LocalTime = 4 * 86400
    /\ last.day = 1

\* C24: a handler that ran the schedule evaluation, and any handler that
\* switched output 0, did so with timeSet true.
C24_NoEvaluationBeforeTimeSet ==
    /\ last.evaluated => timeSet
    /\ (powerState[0] # last.before) => timeSet

\* C25: after startup two firings of the periodic job in the same
\* 5-minute window of clock time do not both build a status.
C25_OneStatusPerWindow ==
    [][(/\ last.handler \in {"setup", "tick"}
        /\ last.status
        /\ last'.handler = "tick"
        /\ last'.status)
         => (epoch' \div 300) # (epoch \div 300)]_vars

IsStartDoc(d) == d.cmd = "start" /\ d.myTime # -1 /\ d.state = <<>>

IsStatusDoc(d) ==
    /\ d.cmd = "status"
    /\ d.myTime # -1
    /\ d.state \in [1..2 -> BOOLEAN]

\* C26: the pending document is empty, or {cmd: "start", my-time}, or
\* {cmd: "status", my-time, state: [b0, b1]}, and so is the document the
\* builder leaves for the send step; what is handed to the transport has
\* one of the latter two shapes, so no start carries a state field.
C26_PendingDocumentShapes ==
    /\ cmdJson = EmptyDoc \/ IsStartDoc(cmdJson) \/ IsStatusDoc(cmdJson)
    /\ last.doc = EmptyDoc \/ IsStartDoc(last.doc) \/ IsStatusDoc(last.doc)
    /\ last.called => (IsStartDoc(last.sent) \/ IsStatusDoc(last.sent))

\* C26 witness: a status has been built over a start that was still
\* pending and handed to the transport.
C26_Witness ==
    /\ last.handler = "tick"
    /\ last.prior = "start"
    /\ last.status
    /\ last.called
    /\ IsStatusDoc(last.sent)

\* C27: startup is not complete at power-on and the step that completes
\* it is the processing of an init downlink, which leaves the clock at the
\* cur-time of that downlink; a handler evaluates the schedule only with
\* startup complete, and output 0 changes only in a handler that evaluates.
\* So every evaluation and every change of output 0 comes after the clock
\* was set from an init, with or without a network time reference.
C27_EvaluationAfterInitClock ==
    /\ startUpComplete = FALSE
    /\ [][/\ last'.evaluated => startUpComplete'
          /\ (powerState' # powerState) => last'.evaluated
          /\ (startUpComplete = FALSE /\ startUpComplete')
               => (InitStep /\ epoch' = last'.dl.curTime)]_vars

\* C27 witness: no network time reference has arrived, an init has set
\* the clock, and a later firing of the periodic job has evaluated the
\* schedule and switched output 0.
C27_Witness ==
    /\ last.handler = "tick"
    /\ timeSet = FALSE
    /\ timeReq = FALSE
    /\ startUpComplete
    /\ last.evaluated
    /\ powerState[0] = TRUE
    /\ last.before = FALSE

====
